---------------------------- MODULE Spec2Model ----------------------------
(***************************************************************************)
(* Level assignment (Graph::reverse_topological_sort) and layout (to_svg)  *)
(* of merman, as a state machine.  A behaviour is one run of generate_svg  *)
(* on one graph: the graph is built, the work-queue loop runs one pop per  *)
(* step, the SortOrder is built, and the boxes and curves are drawn one    *)
(* per step.                                                               *)
(*                                                                         *)
(* Vec<T> values are functions over 0..len-1, as in the source; the        *)
(* VecDeque and the per-node connection lists are sequences.               *)
(***************************************************************************)
EXTENDS Integers, Sequences, FiniteSets

(* Bounds of the explored graphs. *)
MaxNodes == 3
MaxConns == 3

(* usize::MAX, the "unset" depth.  The model's usize has 31 bits (the      *)
(* widest the model checker's integers hold); the arithmetic that can      *)
(* leave the range goes through WrappingInc and SpannedLevels.             *)
UsizeMax == 2147483647

VARIABLES
    nodes,             \* Graph.nodes.len()
    from_connections,  \* Graph.from_connections
    to_connections,    \* Graph.to_connections
    pc,                \* position in generate_svg
    nodes_to_visit,    \* the VecDeque<(usize, usize)> of the loop
    nodes_distance,    \* Vec<usize>, << >> before it is allocated
    result,            \* outcome of reverse_topological_sort
    sort_order,        \* the SortOrder returned on Ok
    i,                 \* to_svg: position in order_indices
    connection_index,  \* to_svg: position in to_connections[node_index]
    boxes,             \* to_svg: rectangles drawn so far
    paths,             \* to_svg: curves drawn so far
    svg_result         \* outcome of to_svg

vars == <<nodes, from_connections, to_connections, pc, nodes_to_visit,
          nodes_distance, result, sort_order, i, connection_index, boxes,
          paths, svg_result>>

graph_vars == <<nodes, from_connections, to_connections>>
sort_vars == <<nodes_to_visit, nodes_distance, result, sort_order>>
svg_vars == <<i, connection_index, boxes, paths, svg_result>>

-----------------------------------------------------------------------------
(* Helpers for vectors. *)

Vec(seq) == [p \in 0..(Len(seq) - 1) |-> seq[p + 1]]

VecLen(v) == Cardinality(DOMAIN v)

SeqsUpTo(S, k) == UNION {[1..m -> S] : m \in 0..k}

NodeIndices == 0..(nodes - 1)

(* struct Connection *)
Connection(f, t) == [from_index |-> f, to_index |-> t]

(* The empty SortOrder, before reverse_topological_sort returns one. *)
NoSortOrder ==
    [order_indices |-> << >>, depths |-> << >>, index_at_depth |-> << >>,
     nodes_in_level |-> << >>]

-----------------------------------------------------------------------------
(* Graph::from_str: each parsed connection is pushed, in input order, to    *)
(* the from-list of its source and to the to-list of its destination.      *)

FromConnectionsOf(n, conns) ==
    [k \in 0..(n - 1) |-> SelectSeq(conns, LAMBDA c : c.from_index = k)]

ToConnectionsOf(n, conns) ==
    [k \in 0..(n - 1) |-> SelectSeq(conns, LAMBDA c : c.to_index = k)]

Init ==
    \E n \in 0..MaxNodes :
      \E conns \in SeqsUpTo({Connection(f, t) : f, t \in 0..(n - 1)}, MaxConns) :
        /\ nodes = n
        /\ from_connections = FromConnectionsOf(n, conns)
        /\ to_connections = ToConnectionsOf(n, conns)
        /\ pc = "sort"
        /\ nodes_to_visit = << >>
        /\ nodes_distance = << >>
        /\ result = "None"
        /\ sort_order = NoSortOrder
        /\ i = 0
        /\ connection_index = 0
        /\ boxes = << >>
        /\ paths = << >>
        /\ svg_result = "None"

-----------------------------------------------------------------------------
(* reverse_topological_sort, lines 120-135: the sinks, in index order, at   *)
(* distance 0.                                                             *)

(* Variant of SinksFrom: starts from the nodes without incoming            *)
(* connections.                                                            *)
RECURSIVE SinksFrom_NoIncoming(_)
SinksFrom_NoIncoming(k) ==
    IF k >= nodes THEN << >>
    ELSE IF Len(to_connections[k]) = 0
         THEN <<(<<k, 0>>)>> \o SinksFrom_NoIncoming(k + 1)
         ELSE SinksFrom_NoIncoming(k + 1)

RECURSIVE SinksFrom(_)
SinksFrom(k) ==
    IF k >= nodes THEN << >>
    ELSE IF Len(from_connections[k]) = 0
         THEN <<(<<k, 0>>)>> \o SinksFrom(k + 1)
         ELSE SinksFrom(k + 1)

InitialQueue == SinksFrom(0)

CollectSinks ==
    /\ pc = "sort"
    /\ IF Len(InitialQueue) = 0
       THEN /\ result' = "EmptyGraph"
            /\ pc' = "done"
            /\ UNCHANGED <<nodes_to_visit, nodes_distance>>
       ELSE /\ nodes_to_visit' = InitialQueue
            /\ nodes_distance' = [k \in NodeIndices |-> UsizeMax]
            /\ pc' = "loop"
            /\ UNCHANGED result
    /\ UNCHANGED <<graph_vars, sort_order, svg_vars>>

-----------------------------------------------------------------------------
(* The work-queue loop, lines 137-159: one pop per step. *)

current_node_index == Head(nodes_to_visit)[1]
current_node_distance == Head(nodes_to_visit)[2]

(* Variants of CycleDetectedAt: the bound one too low, and one too high. *)
CycleDetectedAt_OffByOne(distance) == distance >= nodes - 1

CycleDetectedAt_Late(distance) == distance > nodes

(* Line 139: the cycle test on the popped distance. *)
CycleDetectedAt(distance) == distance >= nodes

(* Variant of IsVisited: a node that has any depth counts as visited. *)
IsVisited_AnyDistance(node_index, distance) ==
    nodes_distance[node_index] # UsizeMax

(* Line 146: the popped entry repeats the node's recorded distance. *)
IsVisited(node_index, distance) == nodes_distance[node_index] = distance

(* Variant of NewNodeDistance: the distance is not advanced. *)
NewNodeDistance_Same(distance) == distance

(* Line 153 *)
NewNodeDistance(distance) == distance + 1

(* Lines 156-158: the producers of node_index, in to-list order. *)
RECURSIVE Originating(_, _)
Originating(conns, distance) ==
    IF Len(conns) = 0 THEN << >>
    ELSE <<(<<Head(conns).from_index, distance>>)>>
         \o Originating(Tail(conns), distance)

PopCycleDetected ==
    /\ pc = "loop"
    /\ Len(nodes_to_visit) > 0
    /\ CycleDetectedAt(current_node_distance)
    /\ nodes_to_visit' = Tail(nodes_to_visit)
    /\ result' = "CycleDetected"
    /\ pc' = "done"
    /\ UNCHANGED <<graph_vars, nodes_distance, sort_order, svg_vars>>

PopVisited ==
    /\ pc = "loop"
    /\ Len(nodes_to_visit) > 0
    /\ ~CycleDetectedAt(current_node_distance)
    /\ IsVisited(current_node_index, current_node_distance)
    /\ nodes_to_visit' = Tail(nodes_to_visit)
    /\ UNCHANGED <<graph_vars, pc, nodes_distance, result, sort_order, svg_vars>>

PopAssign ==
    /\ pc = "loop"
    /\ Len(nodes_to_visit) > 0
    /\ ~CycleDetectedAt(current_node_distance)
    /\ ~IsVisited(current_node_index, current_node_distance)
    /\ nodes_distance' =
         [nodes_distance EXCEPT ![current_node_index] = current_node_distance]
    /\ nodes_to_visit' =
         Tail(nodes_to_visit)
         \o Originating(to_connections[current_node_index],
                        NewNodeDistance(current_node_distance))
    /\ UNCHANGED <<graph_vars, pc, result, sort_order, svg_vars>>

-----------------------------------------------------------------------------
(* Lines 161-166: indices.sort_by(distance).  slice::sort_by is stable; on  *)
(* a slice this short it is an insertion sort that moves an element left   *)
(* only past strictly greater keys.                                        *)

(* Variant of InsertByDistance: an element also moves left past equal     *)
(* keys.                                                                   *)
RECURSIVE InsertByDistance_Unstable(_, _, _)
InsertByDistance_Unstable(sorted, x, distance) ==
    IF Len(sorted) = 0 \/ distance[sorted[Len(sorted)]] < distance[x]
    THEN Append(sorted, x)
    ELSE Append(InsertByDistance_Unstable(SubSeq(sorted, 1, Len(sorted) - 1),
                                          x, distance),
                sorted[Len(sorted)])

RECURSIVE InsertByDistance(_, _, _)
InsertByDistance(sorted, x, distance) ==
    IF Len(sorted) = 0 \/ distance[sorted[Len(sorted)]] <= distance[x]
    THEN Append(sorted, x)
    ELSE Append(InsertByDistance(SubSeq(sorted, 1, Len(sorted) - 1), x, distance),
                sorted[Len(sorted)])

RECURSIVE SortFrom(_, _, _)
SortFrom(k, sorted, distance) ==
    IF k >= nodes THEN sorted
    ELSE SortFrom(k + 1, InsertByDistance(sorted, k, distance), distance)

OrderIndices(distance) == Vec(SortFrom(0, << >>, distance))

(* Line 168 *)
Depths(order, distance) == [p \in DOMAIN order |-> distance[order[p]]]

(* usize + 1: wraps without overflow checks. *)
WrappingInc(x) == IF x = UsizeMax THEN 0 ELSE x + 1

(* Variant of LevelLoop: the counter within a depth is not reset. *)
RECURSIVE LevelLoop_NoReset(_, _, _, _, _, _)
LevelLoop_NoReset(depth_index, d, last, within, iad, nil) ==
    IF depth_index >= VecLen(d)
    THEN [panic |-> FALSE, index_at_depth |-> iad, nodes_in_level |-> nil]
    ELSE LET changed == d[depth_index] # last
             last_depth_index == IF changed THEN d[depth_index] ELSE last
         IN  IF last_depth_index \notin DOMAIN nil
             THEN [panic |-> TRUE, index_at_depth |-> iad, nodes_in_level |-> nil]
             ELSE LevelLoop_NoReset(depth_index + 1, d, last_depth_index,
                                    within + 1,
                                    [iad EXCEPT ![depth_index] = within],
                                    [nil EXCEPT ![last_depth_index] = within + 1])

(* Lines 172-188: the walk over depths d, with last = last_depth_index,     *)
(* within = index_within_depth, iad = index_at_depth and nil =              *)
(* nodes_in_depth_level.  A write past the end of nil panics.              *)
RECURSIVE LevelLoop(_, _, _, _, _, _)
LevelLoop(depth_index, d, last, within, iad, nil) ==
    IF depth_index >= VecLen(d)
    THEN [panic |-> FALSE, index_at_depth |-> iad, nodes_in_level |-> nil]
    ELSE LET changed == d[depth_index] # last
             last_depth_index == IF changed THEN d[depth_index] ELSE last
             index_within_depth == IF changed THEN 0 ELSE within
         IN  IF last_depth_index \notin DOMAIN nil
             THEN [panic |-> TRUE, index_at_depth |-> iad, nodes_in_level |-> nil]
             ELSE LevelLoop(depth_index + 1, d, last_depth_index,
                            index_within_depth + 1,
                            [iad EXCEPT ![depth_index] = index_within_depth],
                            [nil EXCEPT ![last_depth_index] = index_within_depth + 1])

Panicked == [panic |-> TRUE, order |-> NoSortOrder]

(* Lines 161-196 for a build with (TRUE) or without (FALSE) overflow        *)
(* checks: a panic, or the SortOrder.                                      *)
SortOrderOf(distance, overflow_checks) ==
    LET order == OrderIndices(distance)
        depths == Depths(order, distance)
    IN  IF VecLen(depths) = 0
        THEN Panicked                                 \* depths.last().unwrap()
        ELSE LET last == depths[VecLen(depths) - 1]
             IN  IF last = UsizeMax /\ overflow_checks
                 THEN Panicked                        \* attempt to add with overflow
                 ELSE LET num_depth_levels == WrappingInc(last)
                          walk == LevelLoop(0, depths, 0, 0,
                                            [p \in DOMAIN order |-> 0],
                                            [l \in 0..(num_depth_levels - 1) |-> 0])
                      IN  IF walk.panic
                          THEN Panicked               \* index out of bounds
                          ELSE [panic |-> FALSE,
                                order |-> [order_indices |-> order,
                                           depths |-> depths,
                                           index_at_depth |-> walk.index_at_depth,
                                           nodes_in_level |-> walk.nodes_in_level]]

(* The loop has drained the queue: build the SortOrder.  generate_svg goes  *)
(* on to to_svg only on Ok.                                                *)
BuildSortOrder ==
    /\ pc = "loop"
    /\ Len(nodes_to_visit) = 0
    /\ \E overflow_checks \in BOOLEAN :
         LET built == SortOrderOf(nodes_distance, overflow_checks)
         IN  IF built.panic
             THEN /\ result' = "Panic"
                  /\ pc' = "done"
                  /\ UNCHANGED sort_order
             ELSE /\ result' = "Ok"
                  /\ sort_order' = built.order
                  /\ pc' = "svg_box"
    /\ UNCHANGED <<graph_vars, nodes_to_visit, nodes_distance, svg_vars>>

-----------------------------------------------------------------------------
(* layouting.rs: DEFAULT_STYLE *)
box_width == 160
width_between_boxes == 50
box_height == 40
height_between_boxes == 40
margin_height == 10

width_per_level == box_width + width_between_boxes
height_per_level == box_height + height_between_boxes

(* to_svg, lines 80-81 *)
level_count == VecLen(sort_order.nodes_in_level)

Max(S) == CHOOSE m \in S : \A k \in S : k <= m

max_count_in_single_level ==
    Max({sort_order.nodes_in_level[l] : l \in DOMAIN sort_order.nodes_in_level})

(* Line 129: the x of the centre of a box at level_index. *)
BoxX(level_index) ==
    (level_count - level_index - 1) * width_per_level
    + margin_height + width_per_level \div 2

(* Variant of BoxY: the index within the level is left out. *)
BoxY_Unstacked(index_within_level, level_index) ==
    margin_height
    + height_per_level \div 2
    + (height_per_level \div 2)
      * (max_count_in_single_level - sort_order.nodes_in_level[level_index])

(* Lines 130-133: the y of the centre of a box. *)
BoxY(index_within_level, level_index) ==
    index_within_level * height_per_level
    + margin_height
    + height_per_level \div 2
    + (height_per_level \div 2)
      * (max_count_in_single_level - sort_order.nodes_in_level[level_index])

(* draw_box, lines 46-54: the rectangle around (x_center, y_center). *)
Rect(node_index, x_center, y_center) ==
    [node |-> node_index,
     x |-> x_center - box_width \div 2,
     y |-> y_center - box_height \div 2,
     height |-> box_height,
     width |-> box_width]

(* The loop position after the box or curve just drawn: the next           *)
(* connection of this node, the next node, or the end of to_svg.           *)
AdvanceSvg(next_connection) ==
    LET node_index == sort_order.order_indices[i]
    IN  IF next_connection < Len(to_connections[node_index])
        THEN /\ pc' = "svg_conn"
             /\ connection_index' = next_connection
             /\ UNCHANGED <<i, svg_result>>
        ELSE /\ i' = i + 1
             /\ connection_index' = 0
             /\ IF i + 1 < VecLen(sort_order.order_indices)
                THEN pc' = "svg_box" /\ UNCHANGED svg_result
                ELSE pc' = "done" /\ svg_result' = "Done"

(* Lines 125-135: the box of the node at position i. *)
DrawBox ==
    /\ pc = "svg_box"
    /\ LET node_index == sort_order.order_indices[i]
           level_index == sort_order.depths[i]
           index_within_level == sort_order.index_at_depth[i]
           x == BoxX(level_index)
           y == BoxY(index_within_level, level_index)
       IN  boxes' = Append(boxes, Rect(node_index, x, y))
    /\ AdvanceSvg(0)
    /\ UNCHANGED <<graph_vars, sort_vars, paths>>

(* Line 141: iter().position(|&x| x == from_index); -1 when there is none   *)
(* (the unwrap panics).                                                    *)
PositionOf(order, from_index) ==
    LET hits == {p \in DOMAIN order : order[p] = from_index}
    IN  IF hits = {} THEN -1 ELSE CHOOSE p \in hits : \A q \in hits : p <= q

(* Line 160: (from_level_index - level_index - 1) as i32.  The usize        *)
(* subtraction panics below zero with overflow checks; without them it     *)
(* wraps, and the cast yields the signed difference.                       *)
SpannedLevels(from_level_index, level_index, overflow_checks) ==
    LET difference == from_level_index - level_index - 1
    IN  [panic |-> difference < 0 /\ overflow_checks, value |-> difference]

(* Lines 137-175: the curve of one incoming connection of the node at i. *)
DrawConnection ==
    /\ pc = "svg_conn"
    /\ \E overflow_checks \in BOOLEAN :
         LET node_index == sort_order.order_indices[i]
             level_index == sort_order.depths[i]
             x == BoxX(level_index)
             y == BoxY(sort_order.index_at_depth[i], level_index)
             from_index == to_connections[node_index][connection_index + 1].from_index
             from_index_in_sort_order == PositionOf(sort_order.order_indices, from_index)
         IN  IF from_index_in_sort_order < 0
             THEN /\ svg_result' = "Panic"
                  /\ pc' = "done"
                  /\ UNCHANGED <<i, connection_index, paths>>
             ELSE
               LET from_level_index == sort_order.depths[from_index_in_sort_order]
                   num_inputs == Len(to_connections[node_index])
                   x_from == BoxX(from_level_index) + box_width \div 2
                   y_from == BoxY(sort_order.index_at_depth[from_index_in_sort_order],
                                  from_level_index)
                   y_to == y + box_height \div 2
                           - (box_height \div (num_inputs + 1))
                             * (num_inputs - connection_index)
                   x_to == x - box_width \div 2 - 10
                   spanned == SpannedLevels(from_level_index, level_index, overflow_checks)
                   control_point_ext == width_between_boxes \div 4
                                        + spanned.value * width_between_boxes
               IN  IF spanned.panic
                   THEN /\ svg_result' = "Panic"
                        /\ pc' = "done"
                        /\ UNCHANGED <<i, connection_index, paths>>
                   ELSE /\ paths' = Append(paths,
                              [from |-> from_index, to |-> node_index,
                               from_level_index |-> from_level_index,
                               level_index |-> level_index,
                               spanned_levels |-> spanned.value,
                               x_from |-> x_from, y_from |-> y_from,
                               x_to |-> x_to, y_to |-> y_to,
                               control_point_ext |-> control_point_ext])
                        /\ AdvanceSvg(connection_index + 1)
    /\ UNCHANGED <<graph_vars, sort_vars, boxes>>

-----------------------------------------------------------------------------
Next ==
    \/ CollectSinks
    \/ PopCycleDetected
    \/ PopVisited
    \/ PopAssign
    \/ BuildSortOrder
    \/ DrawBox
    \/ DrawConnection

Spec == Init /\ [][Next]_vars

-----------------------------------------------------------------------------
(* Graph notions the properties are stated with. *)

Successors(v) ==
    {from_connections[v][k].to_index : k \in 1..Len(from_connections[v])}

RECURSIVE Closure(_, _)
Closure(S, k) ==
    IF k = 0 THEN S
    ELSE Closure(S \cup UNION {Successors(u) : u \in S}, k - 1)

(* The nodes reachable from v along one or more connections. *)
Descendants(v) == Closure(Successors(v), nodes)

IsAcyclic == \A v \in NodeIndices : v \notin Descendants(v)

IsSink(v) == Successors(v) = {}

HasSink == \E v \in NodeIndices : IsSink(v)

Min(S) == CHOOSE m \in S : \A k \in S : m <= k

(* Path lengths to a sink; defined on acyclic graphs. *)
RECURSIVE LongestToSink(_)
LongestToSink(v) ==
    IF IsSink(v) THEN 0
    ELSE 1 + Max({LongestToSink(t) : t \in Successors(v)})

RECURSIVE ShortestToSink(_)
ShortestToSink(v) ==
    IF IsSink(v) THEN 0
    ELSE 1 + Min({ShortestToSink(t) : t \in Successors(v)})

SortReturned == pc \notin {"sort", "loop"}

QueueEntries == {nodes_to_visit[k] : k \in 1..Len(nodes_to_visit)}

(* The position of node v in the render order. *)
PlaceOf(v) == PositionOf(sort_order.order_indices, v)

-----------------------------------------------------------------------------
(* C1: on an acyclic graph with at least one node the sort returns Ok,     *)
(* every node has a depth in 0..node_count-1 (never the unset value), and  *)
(* every node without outgoing connections has depth 0.                    *)
C1_EveryNodeGetsDepth ==
    (SortReturned /\ nodes >= 1 /\ IsAcyclic) =>
        /\ result = "Ok"
        /\ DOMAIN nodes_distance = NodeIndices
        /\ \A v \in NodeIndices :
             /\ nodes_distance[v] \in 0..(nodes - 1)
             /\ nodes_distance[v] # UsizeMax
             /\ IsSink(v) => nodes_distance[v] = 0

C1_Witness ==
    /\ result = "Ok"
    /\ nodes = 3
    /\ IsAcyclic
    /\ \E v \in NodeIndices : nodes_distance[v] = 2
    /\ \E v \in NodeIndices : IsSink(v) /\ nodes_distance[v] = 0

(* C2: on an acyclic graph, for every connection (from, to) the depths     *)
(* satisfy depth(from) >= depth(to) + 1.                                   *)
C2_ProducerDeeper ==
    (result = "Ok" /\ IsAcyclic) =>
        \A f \in NodeIndices : \A t \in Successors(f) :
            nodes_distance[f] >= nodes_distance[t] + 1

(* A producer two levels above one of its consumers. *)
C2_Witness ==
    /\ result = "Ok"
    /\ IsAcyclic
    /\ \E f \in NodeIndices : \E t \in Successors(f) :
         nodes_distance[f] = nodes_distance[t] + 2

(* C3: a graph with a directed cycle and at least one sink ends in the     *)
(* cycle-detected error, wherever the cycle lies.                          *)
C3_CycleAlwaysDetected ==
    (pc = "done" /\ ~IsAcyclic /\ HasSink) => result = "CycleDetected"

(* C4: a graph in which no node is a sink (the graph without nodes too)    *)
(* ends in the EmptyGraph error, and no depth has been stored by then.     *)
C4_NoSinkIsEmptyGraph ==
    ~HasSink =>
        \/ pc = "sort" /\ result = "None" /\ nodes_distance = << >>
        \/ pc = "done" /\ result = "EmptyGraph" /\ nodes_distance = << >>

C4_Witness ==
    /\ pc = "done"
    /\ result = "EmptyGraph"
    /\ nodes >= 2
    /\ ~HasSink

(* C5 as stated: on an acyclic graph a depth, once stored, is not changed  *)
(* by a later pop (every queued entry of a node that has a depth carries   *)
(* that depth), and the final depth is the shortest distance to a sink.    *)
C5_FirstPopIsShortest ==
    IsAcyclic =>
        /\ pc = "loop" =>
             \A e \in QueueEntries :
                 nodes_distance[e[1]] # UsizeMax => nodes_distance[e[1]] = e[2]
        /\ result = "Ok" =>
             \A v \in NodeIndices : nodes_distance[v] = ShortestToSink(v)

(* C5 amended: on an acyclic graph a later pop only raises a stored depth  *)
(* (every queued entry of a node that has a depth carries at least that    *)
(* depth), so the final depth is that of the node's last pop, and it is    *)
(* the longest distance to a sink.                                         *)
C5_LastPopIsLongest ==
    IsAcyclic =>
        /\ pc = "loop" =>
             \A e \in QueueEntries :
                 nodes_distance[e[1]] # UsizeMax => nodes_distance[e[1]] <= e[2]
        /\ result = "Ok" =>
             \A v \in NodeIndices : nodes_distance[v] = LongestToSink(v)

(* A node whose nearest sink is nearer than its farthest one. *)
C5_Witness ==
    /\ result = "Ok"
    /\ IsAcyclic
    /\ \E v \in NodeIndices : ShortestToSink(v) < LongestToSink(v)

(* C6: on an acyclic graph order_indices is a permutation of the node      *)
(* indices, sorted by depth and, within a depth, by node index; depths[p]  *)
(* is the depth of order_indices[p], so depths never decreases.            *)
C6_OrderSortedStable ==
    (result = "Ok" /\ IsAcyclic) =>
        LET order == sort_order.order_indices
            depths == sort_order.depths
        IN  /\ DOMAIN order = NodeIndices
            /\ {order[p] : p \in DOMAIN order} = NodeIndices
            /\ DOMAIN depths = NodeIndices
            /\ \A p \in NodeIndices : depths[p] = nodes_distance[order[p]]
            /\ \A p, q \in NodeIndices :
                 p < q =>
                   \/ nodes_distance[order[p]] < nodes_distance[order[q]]
                   \/ /\ nodes_distance[order[p]] = nodes_distance[order[q]]
                      /\ order[p] < order[q]
            /\ \A p, q \in NodeIndices : p < q => depths[p] <= depths[q]

(* Two nodes share a depth below a node that does not. *)
C6_Witness ==
    /\ result = "Ok"
    /\ IsAcyclic
    /\ nodes = 3
    /\ \E u, v \in NodeIndices : u # v /\ nodes_distance[u] = nodes_distance[v]
    /\ \E u, v \in NodeIndices : nodes_distance[u] < nodes_distance[v]

BoxesOverlap(a, b) ==
    /\ a.x < b.x + b.width
    /\ b.x < a.x + a.width
    /\ a.y < b.y + b.height
    /\ b.y < a.y + a.height

(* C7: with the default style no two boxes overlap: a deeper node lies     *)
(* left by (depth difference) * (box width + gap), depth 0 is the          *)
(* rightmost column, and of two nodes of one depth the one with the larger *)
(* index within the depth lies lower by (index difference) * (box height   *)
(* + gap).                                                                 *)
C7_BoxesDisjoint ==
    (result = "Ok" /\ IsAcyclic) =>
        \A k, m \in 1..Len(boxes) :
            LET a == boxes[k]
                b == boxes[m]
                depth_a == nodes_distance[a.node]
                depth_b == nodes_distance[b.node]
                within_a == sort_order.index_at_depth[PlaceOf(a.node)]
                within_b == sort_order.index_at_depth[PlaceOf(b.node)]
            IN  /\ k # m => a.node # b.node /\ ~BoxesOverlap(a, b)
                /\ b.x - a.x = (depth_a - depth_b) * width_per_level
                /\ depth_a > depth_b => a.x < b.x
                /\ depth_a = 0 => a.x >= b.x
                /\ depth_a = depth_b =>
                     /\ a.y - b.y = (within_a - within_b) * height_per_level
                     /\ within_a > within_b => a.y > b.y

(* All boxes drawn, two in one column and one in another. *)
C7_Witness ==
    /\ svg_result = "Done"
    /\ IsAcyclic
    /\ Len(boxes) = 3
    /\ \E k, m \in 1..Len(boxes) : k # m /\ boxes[k].x = boxes[m].x
    /\ \E k, m \in 1..Len(boxes) : boxes[k].x < boxes[m].x

RECURSIVE SumUpTo(_, _)
SumUpTo(f, k) == IF k < 0 THEN 0 ELSE f[k] + SumUpTo(f, k - 1)

(* C8: on an acyclic graph nodes_in_level has one entry per depth 0..max   *)
(* depth, nodes_in_level[d] is the number of nodes of depth d (none is 0,  *)
(* the sum is the node count), and index_at_depth[p] is the number of      *)
(* earlier positions of the same depth.                                    *)
C8_LevelCounts ==
    (result = "Ok" /\ IsAcyclic) =>
        LET levels == sort_order.nodes_in_level
            depths == sort_order.depths
            max_depth == Max({nodes_distance[v] : v \in NodeIndices})
        IN  /\ DOMAIN levels = 0..max_depth
            /\ \A d \in 0..max_depth :
                 /\ levels[d] = Cardinality({v \in NodeIndices : nodes_distance[v] = d})
                 /\ levels[d] >= 1
            /\ SumUpTo(levels, max_depth) = nodes
            /\ DOMAIN sort_order.index_at_depth = NodeIndices
            /\ \A p \in NodeIndices :
                 sort_order.index_at_depth[p] =
                     Cardinality({q \in 0..(p - 1) : depths[q] = depths[p]})

(* Several levels, one of them with two nodes. *)
C8_Witness ==
    /\ result = "Ok"
    /\ IsAcyclic
    /\ VecLen(sort_order.nodes_in_level) >= 2
    /\ \E d \in DOMAIN sort_order.nodes_in_level : sort_order.nodes_in_level[d] = 2
    /\ \E p \in DOMAIN sort_order.index_at_depth : sort_order.index_at_depth[p] = 1

(* A rank of the queue: an entry at distance d weighs (B + 1)^(n - d),     *)
(* with n the node count and B the longest to-list; a pop takes one entry  *)
(* away and adds at most B entries of the next distance.                   *)
MaxFanIn == Max({0} \cup {Len(to_connections[v]) : v \in NodeIndices})

RECURSIVE RankOf(_)
RankOf(queue) ==
    IF Len(queue) = 0 THEN 0
    ELSE (MaxFanIn + 1) ^ (nodes - Head(queue)[2]) + RankOf(Tail(queue))

LoopRank == RankOf(nodes_to_visit)

(* C9: on every graph the work-queue loop ends.  Every step leaves in the  *)
(* queue only entries of nodes of the graph at distances up to the node    *)
(* count; a step inside the loop leaves it exactly on an empty queue or on *)
(* a popped distance >= the node count, and otherwise lowers the rank, a   *)
(* natural number.                                                         *)
C9_LoopTerminates ==
    [][/\ \A k \in 1..Len(nodes_to_visit') :
            /\ nodes_to_visit'[k][1] \in NodeIndices
            /\ nodes_to_visit'[k][2] <= nodes
       /\ pc = "loop" =>
            IF Len(nodes_to_visit) = 0 \/ current_node_distance >= nodes
            THEN pc' # "loop"
            ELSE pc' = "loop" /\ LoopRank' >= 0 /\ LoopRank' < LoopRank]_vars

(* The loop ended on an entry at distance = node count. *)
C9_Witness ==
    /\ result = "CycleDetected"
    /\ nodes = 3
    /\ HasSink
    /\ \E v \in NodeIndices : nodes_distance[v] = nodes - 1

(* C10: on an acyclic graph every drawn connection has the producer's      *)
(* level at least one above the consumer's, so from_level_index -          *)
(* level_index - 1 does not go below zero and to_svg does not panic.       *)
C10_NoUnderflow ==
    IsAcyclic =>
        /\ svg_result # "Panic"
        /\ \A k \in 1..Len(paths) :
             /\ paths[k].from_level_index >= paths[k].level_index + 1
             /\ paths[k].spanned_levels >= 0
             /\ paths[k].spanned_levels =
                  paths[k].from_level_index - paths[k].level_index - 1

(* All curves drawn, one of them across more than one level. *)
C10_Witness ==
    /\ svg_result = "Done"
    /\ IsAcyclic
    /\ Len(paths) >= 2
    /\ \E k \in 1..Len(paths) : paths[k].spanned_levels >= 1

=============================================================================
